---- MODULE Spec2Model ----
(***************************************************************************)
(* The provisioning poller of the MetaApi proxy service:                   *)
(* waitAccountConnected(accountId, maxWaitMs) of src/src/server.js         *)
(* (the same function, line for line, in src/unnamed/part_001).            *)
(*                                                                         *)
(* The provider is the environment.  An account it holds moves between     *)
(* lifecycle states and connection statuses on its own, so a fetch         *)
(* delivers any account body; for an account it does not hold it sends its *)
(* error body.  A fetch may also be rejected (network error) or carry a    *)
(* body that r.json() cannot parse.  Time is the value of Date.now() in    *)
(* ms; it advances only while the function is suspended in an await.       *)
(***************************************************************************)
EXTENDS Integers, Sequences, FiniteSets, TLC

\* ---------------------------------------------------------------- bounds
\* the largest wait budget tried, in whole poll intervals
MaxIntervals == 2
\* how many times the poller is called in sequence
MaxCalls == 2
\* the latency a slow fetch adds (ms); a fast one adds 0
LatencyMs == 1000
\* how late a timer may fire (ms); an exact one adds 0
OvershootMs == 1

\* ------------------------------------------------------ program constants
\* setTimeout(s, 2500): the sleep at the end of an iteration
PollIntervalMs == 2500

\* the text of the timeout outcome
TimeoutError == "Timeout waiting for CONNECTED"

\* a field that a JSON body does not have reads as undefined
Undefined == "undefined"

\* ------------------------------------------------------------- the state
VARIABLES
    pc,          \* where the call is: idle, test, fetching, parsing, sleeping, returned, threw
    now,         \* Date.now(), counted from the moment the call began
    start,       \* const start
    maxWaitMs,   \* the parameter
    j,           \* const j: the body read last by this call (none while a fetch is pending)
    outcome,     \* the object returned
    thrown,      \* the exception that left the function, or "none"
    acct,        \* whether the provider holds the account: present, deleted
    calls,       \* calls made so far
    prevOutcome, \* the object the previous call returned
    polls,       \* iterations begun by this call
    sleeps,      \* sleeps finished or pending of this call
    gets,        \* GET requests this call sent
    writes,      \* other requests this call sent
    exact,       \* no fetch of this call was slow and no timer late
    firstTerminalAt, \* the first poll of this call whose body met TerminalCondition, or 0
    firstFailedAt,   \* the first poll of this call whose body met FailureCondition, or 0
    firstConnectedAt, \* the first poll of this call whose body met SuccessCondition, or 0
    failedFetches, \* fetches of this call that were rejected or had an unparsable body
    steady,      \* every fetch so far, of any call, delivered a body that met SuccessCondition
    prevPositive, \* the previous call had maxWaitMs > 0
    sinceCancel  \* ms since the client went away during this call (counted up to one interval and 1 ms), or -1

pollerVars == <<pc, now, start, maxWaitMs, j, outcome, thrown, acct, calls, prevOutcome,
                polls, sleeps, gets, writes, exact, firstTerminalAt, firstFailedAt,
                firstConnectedAt, failedFetches, steady, prevPositive, sinceCancel>>

\* one HTTP request to the service, from the middlewares to the response
VARIABLES
    rev,          \* the revision of the file that serves it: polling, direct
    INTERNAL_KEY, \* process.env.INTERNAL_API_KEY || ''
    TOKEN,        \* whether METAAPI_TOKEN is set: present, missing
    req,          \* the request
    hpc,          \* where the request is in the middlewares and the handler
    res,          \* the response sent
    prov,         \* the account of this request at the provider: none, created, deployed, deleted
    sent,         \* the requests the service has sent to the provider, in order
    answered,     \* how each of them ended, in the same order
    wait,         \* const wait: what waitAccountConnected returned
    handlerRan    \* a route handler has begun to run

linkVars == <<rev, INTERNAL_KEY, TOKEN, req, hpc, res, prov, sent, answered, wait,
              handlerRan>>

\* one request to POST /api/create-copy-link (part_000:182-232)
VARIABLES
    copyReq,          \* req.body: accountId, mirrorOpenTrades
    cpc,              \* where the handler is
    subscriber,       \* whether the provider has a subscriber for the account
    subscriberExists, \* let subscriberExists
    probe,            \* how getSubscriber ended: none, found, notFound, failed
    cfCalls,          \* the subscriberApi methods called, in order
    copyRes           \* the response sent

copyVars == <<copyReq, cpc, subscriber, subscriberExists, probe, cfCalls, copyRes>>

\* one call of resolveStrategyId (server.js:95-106)
VARIABLES
    strategyMaybe,    \* the argument
    strategies,       \* the strategies the provider lists, in order
    rpc,              \* where the call is
    direct,           \* r.ok of the direct lookup: none, ok, notok
    list,             \* const list: whether it was read, whether it is an array, its items
    resolved,         \* the value returned
    resolveError      \* the error thrown: none, NotFound, fetch

resolveVars == <<strategyMaybe, strategies, rpc, direct, list, resolved, resolveError>>

\* calls of ensureSubscriberRole, one after the other (server.js:108-121)
VARIABLES
    roles,            \* copyFactoryRoles of the account at the provider
    epc,              \* where the call is
    info,             \* const info: whether the body has copyFactoryRoles, and the roles
    ensured,          \* how the call ended: none, true, threw
    roleWrites,       \* enable-copy-factory-api requests of this call
    roleCalls,        \* calls begun
    prevEnsured       \* how the call before this one ended

roleVars == <<roles, epc, info, ensured, roleWrites, roleCalls, prevEnsured>>

\* two invocations of waitAccountConnected in flight at once
VARIABLES
    clock,            \* Date.now()
    ppc,              \* where each invocation is
    pstart,           \* const start of each invocation
    pmax,             \* maxWaitMs of each invocation
    pdue,             \* when the timer of each invocation is due
    pout,             \* what each invocation returned
    calledAt,         \* when each invocation was called
    solo,             \* what each invocation returns when it runs alone
    actor             \* the invocation that took the last step

concVars == <<clock, ppc, pstart, pmax, pdue, pout, calledAt, solo, actor>>

otherVars == <<linkVars, copyVars, resolveVars, roleVars, concVars>>
notLinkVars == <<pollerVars, copyVars, resolveVars, roleVars, concVars>>
notCopyVars == <<pollerVars, linkVars, resolveVars, roleVars, concVars>>
notResolveVars == <<pollerVars, linkVars, copyVars, roleVars, concVars>>
notRoleVars == <<pollerVars, linkVars, copyVars, resolveVars, concVars>>
notConcVars == <<pollerVars, linkVars, copyVars, resolveVars, roleVars>>

vars == <<pollerVars, otherVars>>

\* ------------------------------------------------------------ the provider
\* values of the three fields the poller reads; errorCode may be absent
\* (undefined), a falsy value (the empty string) or a code
States == {"DEPLOYING", "DEPLOYED", "DEPLOY_FAILED"}
ConnectionStatuses == {"DISCONNECTED", "CONNECTED"}
ErrorCodes == {Undefined, "", "E_AUTH"}

\* the JSON body of GET /users/current/accounts/{id} for an account the
\* provider holds
Accounts == [id : {"acc"}, state : States,
             connectionStatus : ConnectionStatuses, errorCode : ErrorCodes]

\* the JSON body the provider sends for an account it does not have (404):
\* an error object without state, connectionStatus or errorCode
NotFoundBody == [id |-> "NotFoundError", state |-> Undefined,
                 connectionStatus |-> Undefined, errorCode |-> Undefined]

\* no body at all (a value for variables that hold a body)
NoBody == [id |-> Undefined, state |-> Undefined,
           connectionStatus |-> Undefined, errorCode |-> Undefined]

\* the bodies a GET may deliver, by whether the provider holds the account
Bodies(held) == IF held = "present" THEN Accounts ELSE {NotFoundBody}

\* what a request of a given method does to the account at the provider:
\* a GET reads it, a DELETE removes it
ProviderApply(held, method) ==
    IF method = "DELETE" THEN "deleted" ELSE held

\* the conditions as the specification words them, for what was observed
SuccessCondition(body) ==
    body.state = "DEPLOYED" /\ body.connectionStatus = "CONNECTED"

\* "terminal deploy-failure state, or any non-null error code"
TerminalCondition(body) ==
    body.state = "DEPLOY_FAILED" \/ body.errorCode # Undefined

\* a body that is not a success and has DEPLOY_FAILED or a truthy errorCode
FailureCondition(body) ==
    /\ ~SuccessCondition(body)
    /\ (body.state = "DEPLOY_FAILED" \/ body.errorCode \notin {Undefined, ""})

\* ------------------------------------------------------------- the poller
\* JavaScript truthiness of the errorCode field (`|| err`)
Truthy(v) == v \notin {Undefined, ""}

\* a slip: || for &&
IsConnected_Either(state, cs) == state = "DEPLOYED" \/ cs = "CONNECTED"

\* a slip: the values compared in lower case, which the provider never sends
IsConnected_LowerCase(state, cs) == state = "deployed" /\ cs = "connected"

\* line 87: state === 'DEPLOYED' && cs === 'CONNECTED'
IsConnected(state, cs) == state = "DEPLOYED" /\ cs = "CONNECTED"

\* a slip: the errorCode is not looked at
IsFailed_StateOnly(state, err) == state = "DEPLOY_FAILED"

\* line 88: state === 'DEPLOY_FAILED' || err
IsFailed(state, err) == state = "DEPLOY_FAILED" \/ Truthy(err)

\* the three objects the function returns (absent fields are undefined)
ConnectedOutcome(state, cs) ==
    [ok |-> TRUE, state |-> state, connectionStatus |-> cs,
     errorCode |-> Undefined, raw |-> NoBody, error |-> Undefined]

FailedOutcome(state, cs, err, body) ==
    [ok |-> FALSE, state |-> state, connectionStatus |-> cs,
     errorCode |-> err, raw |-> body, error |-> Undefined]

TimedOutOutcome ==
    [ok |-> FALSE, state |-> Undefined, connectionStatus |-> Undefined,
     errorCode |-> Undefined, raw |-> NoBody, error |-> TimeoutError]

NoOutcome ==
    [ok |-> FALSE, state |-> Undefined, connectionStatus |-> Undefined,
     errorCode |-> Undefined, raw |-> NoBody, error |-> Undefined]

\* the outcome of the spec that a returned object stands for
Tag(o) == IF o.ok THEN "Connected"
          ELSE IF o.error = TimeoutError THEN "TimedOut"
          ELSE "Failed"

\* a slip: the loop gives up when half the budget is spent
WithinBudget_Halved(t, s, m) == 2 * (t - s) < m

\* a slip: a flag at module level that the first call leaves set, so that a
\* later call finds its loop already over
WithinBudget_OneShot(t, s, m) == t - s < m /\ calls <= 1

\* a slip: do { ... } while (...), so that the test is skipped before the
\* first iteration
WithinBudget_TestedAfter(t, s, m) == t - s < m \/ t = s

\* a slip: <= for <
WithinBudget_Inclusive(t, s, m) == t - s <= m

\* line 80: Date.now() - start < maxWaitMs
WithinBudget(t, s, m) == t - s < m

\* a slip: the request of the cleanup path, { method: 'DELETE' }
FetchMethod_Delete == "DELETE"

\* line 81: fetch(url, { headers: h() }) has no method, so it is a GET
FetchMethod == "GET"

\* the budgets tried: multiples of the interval and one ms more, and a
\* negative one
WaitChoices ==
    {-1} \cup UNION {{k * PollIntervalMs, k * PollIntervalMs + 1} : k \in 0..MaxIntervals}

\* no call with a budget of WaitChoices starts this many polls
PollCap == MaxIntervals + 2

\* sinceCancel after d more ms
Elapse(since, d) ==
    IF since < 0 THEN since
    ELSE IF since + d > PollIntervalMs THEN PollIntervalMs + 1
    ELSE since + d

Running == {"test", "fetching", "parsing", "sleeping"}
Finished == {"returned", "threw"}

\* ------------------------------------------------- the request, at rest
\* the response object; a field that was not set is undefined
NoResponse ==
    [status |-> 0, ok |-> FALSE, error |-> Undefined, step |-> Undefined,
     accountId |-> Undefined, dryRun |-> FALSE, connection |-> NoOutcome,
     state |-> Undefined, connectionStatus |-> Undefined,
     errorCode |-> Undefined, raw |-> NoBody]

NoRequest ==
    [method |-> "GET", path |-> "/api/health", key |-> Undefined, bodyOk |-> TRUE,
     fields |-> "complete", dryRun |-> FALSE, roles |-> FALSE]

\* no request is being served
LinkIdle ==
    /\ rev = "polling"
    /\ INTERNAL_KEY = ""
    /\ req = NoRequest
    /\ hpc = "idle"
    /\ res = NoResponse
    /\ prov = "none"
    /\ sent = <<>>
    /\ answered = <<>>
    /\ wait = NoOutcome
    /\ handlerRan = FALSE

LinkParked == LinkIdle /\ TOKEN = "present"

\* the two invocations
Procs == {1, 2}

\* the other parts of the service at rest
CopyParked ==
    /\ copyReq = [accountId |-> Undefined, mirrorOpenTrades |-> Undefined]
    /\ cpc = "idle"
    /\ subscriber = FALSE
    /\ subscriberExists = FALSE
    /\ probe = "none"
    /\ cfCalls = <<>>
    /\ copyRes = [status |-> 0, ok |-> FALSE]

ResolveParked ==
    /\ strategyMaybe = Undefined
    /\ strategies = <<>>
    /\ rpc = "idle"
    /\ direct = "none"
    /\ list = [read |-> FALSE, array |-> FALSE, items |-> <<>>]
    /\ resolved = Undefined
    /\ resolveError = "none"

RoleParked ==
    /\ roles = {}
    /\ epc = "idle"
    /\ info = [listed |-> FALSE, copyFactoryRoles |-> {}]
    /\ ensured = "none"
    /\ roleWrites = 0
    /\ roleCalls = 0
    /\ prevEnsured = "none"

ConcParked ==
    /\ clock = 0
    /\ ppc = [p \in Procs |-> "idle"]
    /\ pstart = [p \in Procs |-> 0]
    /\ pmax = [p \in Procs |-> 0]
    /\ pdue = [p \in Procs |-> 0]
    /\ pout = [p \in Procs |-> NoOutcome]
    /\ calledAt = [p \in Procs |-> 0]
    /\ solo = [p \in Procs |-> NoOutcome]
    /\ actor = 0

OthersParked == LinkParked /\ CopyParked /\ ResolveParked /\ RoleParked /\ ConcParked

PollerInit ==
    /\ pc = "idle"
    /\ now = 0
    /\ start = 0
    /\ maxWaitMs = 0
    /\ j = NoBody
    /\ outcome = NoOutcome
    /\ thrown = "none"
    /\ acct \in {"present", "deleted"}
    /\ calls = 0
    /\ prevOutcome = NoOutcome
    /\ polls = 0
    /\ sleeps = 0
    /\ gets = 0
    /\ writes = 0
    /\ exact = TRUE
    /\ firstTerminalAt = 0
    /\ firstFailedAt = 0
    /\ firstConnectedAt = 0
    /\ failedFetches = 0
    /\ steady = TRUE
    /\ prevPositive = FALSE
    /\ sinceCancel = -1

\* no call of the poller is being followed
PollerParked == PollerInit /\ acct = "present"

Init == PollerInit /\ OthersParked

\* line 78-79: the call; const start = Date.now().  The function uses the
\* clock only in the difference of line 80, so the clock is read from the
\* moment of the call: it shows 0 when a call begins.
Call ==
    /\ pc \in {"idle"} \cup Finished
    /\ calls < MaxCalls
    /\ \E m \in WaitChoices : maxWaitMs' = m
    /\ pc' = "test"
    /\ now' = 0
    /\ start' = now'
    /\ calls' = calls + 1
    /\ prevOutcome' = outcome
    /\ outcome' = NoOutcome
    /\ thrown' = "none"
    /\ j' = NoBody
    /\ polls' = 0 /\ sleeps' = 0 /\ gets' = 0 /\ writes' = 0
    /\ exact' = TRUE
    /\ firstTerminalAt' = 0 /\ firstFailedAt' = 0 /\ firstConnectedAt' = 0
    /\ failedFetches' = 0
    /\ prevPositive' = (maxWaitMs > 0)
    /\ steady' = steady
    /\ sinceCancel' = -1
    /\ UNCHANGED acct
    /\ UNCHANGED otherVars

\* line 80-81: the loop test holds and the request is sent
LoopEnter ==
    /\ pc = "test"
    /\ WithinBudget(now, start, maxWaitMs)
    /\ polls < PollCap
    /\ pc' = "fetching"
    /\ polls' = polls + 1
    /\ gets' = gets + (IF FetchMethod = "GET" THEN 1 ELSE 0)
    /\ writes' = writes + (IF FetchMethod = "GET" THEN 0 ELSE 1)
    /\ acct' = ProviderApply(acct, FetchMethod)
    /\ j' = NoBody
    /\ UNCHANGED <<now, start, maxWaitMs, outcome, thrown, calls, prevOutcome, sleeps,
                   exact, firstTerminalAt, firstFailedAt, firstConnectedAt,
                   failedFetches, steady, prevPositive, sinceCancel>>
    /\ UNCHANGED otherVars

\* line 80, 92: the loop test fails; return the timeout object
LoopExit ==
    /\ pc = "test"
    /\ ~WithinBudget(now, start, maxWaitMs)
    /\ pc' = "returned"
    /\ outcome' = TimedOutOutcome
    /\ UNCHANGED <<now, start, maxWaitMs, j, thrown, acct, calls, prevOutcome, polls,
                   sleeps, gets, writes, exact, firstTerminalAt, firstFailedAt,
                   firstConnectedAt, failedFetches, steady, prevPositive, sinceCancel>>
    /\ UNCHANGED otherVars

\* line 81: await fetch(...) settles with a response
FetchResponds ==
    /\ pc = "fetching"
    /\ \E d \in {0, LatencyMs} :
          /\ now' = now + d
          /\ exact' = (exact /\ d = 0)
          /\ sinceCancel' = Elapse(sinceCancel, d)
    /\ pc' = "parsing"
    /\ UNCHANGED <<start, maxWaitMs, j, outcome, thrown, acct, calls, prevOutcome, polls,
                   sleeps, gets, writes, firstTerminalAt, firstFailedAt,
                   firstConnectedAt, failedFetches, steady, prevPositive>>
    /\ UNCHANGED otherVars

\* line 81: await fetch(...) rejects (network error); nothing catches it
FetchRejects ==
    /\ pc = "fetching"
    /\ \E d \in {0, LatencyMs} :
          /\ now' = now + d
          /\ exact' = (exact /\ d = 0)
          /\ sinceCancel' = Elapse(sinceCancel, d)
    /\ pc' = "threw"
    /\ thrown' = "fetch failed"
    /\ steady' = FALSE
    /\ failedFetches' = failedFetches + 1
    /\ UNCHANGED <<start, maxWaitMs, j, outcome, acct, calls, prevOutcome, polls,
                   sleeps, gets, writes, firstTerminalAt, firstFailedAt,
                   firstConnectedAt, prevPositive>>
    /\ UNCHANGED otherVars

\* line 82: await r.json() rejects (the body is not JSON); nothing catches it
JsonRejects ==
    /\ pc = "parsing"
    /\ pc' = "threw"
    /\ thrown' = "invalid json"
    /\ steady' = FALSE
    /\ failedFetches' = failedFetches + 1
    /\ UNCHANGED <<now, start, maxWaitMs, j, outcome, acct, calls, prevOutcome, polls,
                   sleeps, gets, writes, exact, firstTerminalAt, firstFailedAt,
                   firstConnectedAt, prevPositive, sinceCancel>>
    /\ UNCHANGED otherVars

\* a slip: lines 87 and 88 in the other order, the failure test first
JsonParsed_FailureFirst ==
    /\ pc = "parsing"
    /\ \E body \in Bodies(acct) :
       LET state == body.state
           cs    == body.connectionStatus
           err   == body.errorCode
       IN /\ j' = body
          /\ steady' = (steady /\ SuccessCondition(body))
          /\ firstTerminalAt' =
                 IF firstTerminalAt = 0 /\ TerminalCondition(body)
                 THEN polls ELSE firstTerminalAt
          /\ firstFailedAt' =
                 IF firstFailedAt = 0 /\ FailureCondition(body)
                 THEN polls ELSE firstFailedAt
          /\ firstConnectedAt' =
                 IF firstConnectedAt = 0 /\ SuccessCondition(body)
                 THEN polls ELSE firstConnectedAt
          /\ IF IsFailed(state, err)
             THEN /\ pc' = "returned"
                  /\ outcome' = FailedOutcome(state, cs, err, body)
                  /\ sleeps' = sleeps
             ELSE IF IsConnected(state, cs)
             THEN /\ pc' = "returned"
                  /\ outcome' = ConnectedOutcome(state, cs)
                  /\ sleeps' = sleeps
             ELSE /\ pc' = "sleeping"
                  /\ outcome' = outcome
                  /\ sleeps' = sleeps + 1
    /\ UNCHANGED <<now, start, maxWaitMs, thrown, acct, calls, prevOutcome, polls,
                   gets, writes, exact, failedFetches, prevPositive, sinceCancel>>
    /\ UNCHANGED otherVars

\* line 82-90: await r.json() delivers the body; the two tests; the sleep begins
JsonParsed ==
    /\ pc = "parsing"
    /\ \E body \in Bodies(acct) :
       LET state == body.state
           cs    == body.connectionStatus
           err   == body.errorCode
       IN /\ j' = body
          /\ steady' = (steady /\ SuccessCondition(body))
          /\ firstTerminalAt' =
                 IF firstTerminalAt = 0 /\ TerminalCondition(body)
                 THEN polls ELSE firstTerminalAt
          /\ firstFailedAt' =
                 IF firstFailedAt = 0 /\ FailureCondition(body)
                 THEN polls ELSE firstFailedAt
          /\ firstConnectedAt' =
                 IF firstConnectedAt = 0 /\ SuccessCondition(body)
                 THEN polls ELSE firstConnectedAt
          /\ IF IsConnected(state, cs)
             THEN /\ pc' = "returned"
                  /\ outcome' = ConnectedOutcome(state, cs)
                  /\ sleeps' = sleeps
             ELSE IF IsFailed(state, err)
             THEN /\ pc' = "returned"
                  /\ outcome' = FailedOutcome(state, cs, err, body)
                  /\ sleeps' = sleeps
             ELSE /\ pc' = "sleeping"
                  /\ outcome' = outcome
                  /\ sleeps' = sleeps + 1
    /\ UNCHANGED <<now, start, maxWaitMs, thrown, acct, calls, prevOutcome, polls,
                   gets, writes, exact, failedFetches, prevPositive, sinceCancel>>
    /\ UNCHANGED otherVars

\* line 90: the timer fires after 2500 ms (or a little later)
Wake ==
    /\ pc = "sleeping"
    /\ \E d \in {0, OvershootMs} :
          /\ now' = now + PollIntervalMs + d
          /\ exact' = (exact /\ d = 0)
          /\ sinceCancel' = Elapse(sinceCancel, PollIntervalMs + d)
    /\ pc' = "test"
    /\ UNCHANGED <<start, maxWaitMs, j, outcome, thrown, acct, calls, prevOutcome, polls,
                   sleeps, gets, writes, firstTerminalAt, firstFailedAt,
                   firstConnectedAt, failedFetches, steady, prevPositive>>
    /\ UNCHANGED otherVars

\* the client of the enclosing request goes away; the function has no
\* parameter, listener or test for it
Cancel ==
    /\ pc \in Running
    /\ sinceCancel = -1
    /\ sinceCancel' = 0
    /\ UNCHANGED <<pc, now, start, maxWaitMs, j, outcome, thrown, acct, calls,
                   prevOutcome, polls, sleeps, gets, writes, exact, firstTerminalAt,
                   firstFailedAt, firstConnectedAt, failedFetches, steady, prevPositive>>
    /\ UNCHANGED otherVars

Next ==
    \/ Call
    \/ LoopEnter
    \/ LoopExit
    \/ FetchResponds
    \/ FetchRejects
    \/ JsonRejects
    \/ JsonParsed
    \/ Wake
    \/ Cancel

Spec == Init /\ [][Next]_vars

\* The event loop runs every continuation that is ready and fires every
\* timer; each fetch settles (it delivers, or it fails).  Nothing obliges a
\* caller to call, or a client to go away.
Fairness ==
    /\ WF_vars(LoopEnter)
    /\ WF_vars(LoopExit)
    /\ WF_vars(FetchResponds \/ FetchRejects)
    /\ WF_vars(JsonParsed \/ JsonRejects)
    /\ WF_vars(Wake)

LiveSpec == Init /\ [][Next]_vars /\ Fairness

\* the objects waitAccountConnected can return: line 87 for a body that
\* passes its test, line 88 for one that fails it and passes the next, line 92
PollerReturns ==
    {ConnectedOutcome(b.state, b.connectionStatus) :
        b \in {a \in Accounts : IsConnected(a.state, a.connectionStatus)}}
    \cup {FailedOutcome(b.state, b.connectionStatus, b.errorCode, b) :
        b \in {a \in Accounts : /\ ~IsConnected(a.state, a.connectionStatus)
                                 /\ IsFailed(a.state, a.errorCode)}}
    \cup {TimedOutOutcome}

TypeOK ==
    /\ pc \in {"idle"} \cup Running \cup Finished
    /\ (pc = "returned" => outcome \in PollerReturns)
    /\ polls < PollCap
    /\ j \in Accounts \cup {NotFoundBody, NoBody}
    /\ acct \in {"present", "deleted"}
    /\ now >= start

\* ceil(m / p) for m >= 0, p > 0
CeilDiv(m, p) == (m + p - 1) \div p

\* ====================================================================
\* One HTTP request, through the middlewares to POST /api/link-account.
\* rev = "polling" is the handler of src/src/server.js:179-270 (the same in
\* src/unnamed/part_001:156-251); rev = "direct" is the handler of
\* src/unnamed/part_000:74-141 (the same in part_002:47-114 and
\* part_001:602-671), a file that has no CORS and no key middleware.
\* ====================================================================

\* the id the provider gives the account it creates
AccountId == "acc"

Revisions == {"polling", "direct"}
Methods == {"GET", "POST", "OPTIONS"}
Paths == {"/api/link-account", "/api/copy/enable-subscriber", "/api/health"}
Keys == {Undefined, "k1", "k2"}

Requests ==
    [method : Methods, path : Paths, key : Keys, bodyOk : BOOLEAN,
     fields : {"complete", "missing"}, dryRun : BOOLEAN, roles : BOOLEAN]

\* the routes a revision registers
Routes(r) ==
    IF r = "polling"
    THEN {<<"GET", "/api/health">>, <<"POST", "/api/link-account">>,
          <<"POST", "/api/copy/enable-subscriber">>}
    ELSE {<<"GET", "/api/health">>, <<"POST", "/api/link-account">>}

\* how the provider answers a request: with an OK status, with another
\* status, or not at all (fetch rejects)
Answers == {"ok", "notok", "reject"}

\* res.status(n).json({ ok: false, error })
ErrorResponse(status, error) ==
    [NoResponse EXCEPT !.status = status, !.error = error]

\* server.js:63-65: INTERNAL_KEY && req.method === 'POST' && k !== INTERNAL_KEY
KeyRefused(internal, method, k) ==
    internal # "" /\ method = "POST" /\ k # internal

\* a slip: the fields of wait are not copied
PollFailureResponse_NoSpread(w, id) ==
    [NoResponse EXCEPT !.status = 400, !.step = "poll", !.accountId = id]

\* server.js:244: res.status(400).json({ ok: false, step: 'poll', ...wait, accountId: id })
PollFailureResponse(w, id) ==
    [NoResponse EXCEPT !.status = 400, !.step = "poll",
                       !.ok = w.ok, !.state = w.state,
                       !.connectionStatus = w.connectionStatus,
                       !.errorCode = w.errorCode, !.raw = w.raw,
                       !.error = w.error, !.accountId = id]

\* server.js:266: res.json({ ok: true, accountId: id, region, connection: wait });
\* part_000:135: res.json({ ok:true, accountId, region: REGION })
SuccessResponse(r, w, id) ==
    [NoResponse EXCEPT !.status = 200, !.ok = TRUE, !.accountId = id,
                       !.connection = IF r = "polling" THEN w ELSE NoOutcome]

\* res.json({ ok: true, dryRun: true })
DryRunResponse ==
    [NoResponse EXCEPT !.status = 200, !.ok = TRUE, !.dryRun = TRUE]

\* the response is sent and the request is over
Respond(r) == res' = r /\ hpc' = "responded"

\* a request has arrived
LinkInit ==
    /\ PollerParked
    /\ CopyParked /\ ResolveParked /\ RoleParked /\ ConcParked
    /\ rev \in Revisions
    /\ INTERNAL_KEY \in {"", "k1"}
    /\ TOKEN \in {"present", "missing"}
    /\ req \in Requests
    /\ hpc = "json"
    /\ res = NoResponse
    /\ prov = "none"
    /\ sent = <<>>
    /\ answered = <<>>
    /\ wait = NoOutcome
    /\ handlerRan = FALSE

\* app.use(express.json()): a body that is not JSON is answered 400 by the
\* parser's error and no later middleware or handler runs
JsonMiddleware ==
    /\ hpc = "json"
    /\ IF ~req.bodyOk
       THEN Respond(ErrorResponse(400, "Unexpected token"))
       ELSE /\ hpc' = IF rev = "polling" THEN "cors" ELSE "route"
            /\ res' = res
    /\ UNCHANGED <<rev, INTERNAL_KEY, TOKEN, req, prov, sent, answered, wait, handlerRan>>
    /\ UNCHANGED notLinkVars

\* server.js:49-59: the CORS middleware answers OPTIONS itself
CorsMiddleware ==
    /\ hpc = "cors"
    /\ IF req.method = "OPTIONS"
       THEN Respond([NoResponse EXCEPT !.status = 200])
       ELSE hpc' = "key" /\ res' = res
    /\ UNCHANGED <<rev, INTERNAL_KEY, TOKEN, req, prov, sent, answered, wait, handlerRan>>
    /\ UNCHANGED notLinkVars

\* server.js:62-70: the internal key middleware
KeyMiddleware ==
    /\ hpc = "key"
    /\ IF KeyRefused(INTERNAL_KEY, req.method, req.key)
       THEN Respond([ErrorResponse(401, "Unauthorized") EXCEPT !.ok = FALSE])
       ELSE hpc' = "route" /\ res' = res
    /\ UNCHANGED <<rev, INTERNAL_KEY, TOKEN, req, prov, sent, answered, wait, handlerRan>>
    /\ UNCHANGED notLinkVars

\* the router: the handler registered for the method and path begins, or the
\* request is answered 404
Route ==
    /\ hpc = "route"
    /\ IF <<req.method, req.path>> \notin Routes(rev)
       THEN Respond(ErrorResponse(404, "Cannot " \o req.method)) /\ handlerRan' = handlerRan
       ELSE /\ handlerRan' = TRUE
            /\ hpc' = IF req.path = "/api/link-account" THEN "validate" ELSE "other"
            /\ res' = res
    /\ UNCHANGED <<rev, INTERNAL_KEY, TOKEN, req, prov, sent, answered, wait>>
    /\ UNCHANGED notLinkVars

\* a handler of another route: it calls the provider and answers
OtherHandler ==
    /\ hpc = "other"
    /\ sent' = Append(sent, "other")
    /\ \E a \in Answers :
          /\ answered' = Append(answered, a)
          /\ Respond(IF a = "ok" THEN [NoResponse EXCEPT !.status = 200, !.ok = TRUE]
                     ELSE ErrorResponse(400, "failed"))
    /\ UNCHANGED <<rev, INTERNAL_KEY, TOKEN, req, prov, wait, handlerRan>>
    /\ UNCHANGED notLinkVars

\* a slip: the token is not looked at before the first request
LinkValidate_TokenUnchecked ==
    /\ hpc = "validate"
    /\ IF req.fields = "missing"
       THEN Respond(ErrorResponse(400, "Missing fields: brokerServer, login, password"))
       ELSE hpc' = "create" /\ res' = res
    /\ UNCHANGED <<rev, INTERNAL_KEY, TOKEN, req, prov, sent, answered, wait, handlerRan>>
    /\ UNCHANGED notLinkVars

\* server.js:189-192: the fields, then the token
LinkValidate ==
    /\ hpc = "validate"
    /\ IF req.fields = "missing"
       THEN Respond(ErrorResponse(400, "Missing fields: brokerServer, login, password"))
       ELSE IF TOKEN = "missing"
       THEN Respond(ErrorResponse(500, "METAAPI_TOKEN missing"))
       ELSE hpc' = "create" /\ res' = res
    /\ UNCHANGED <<rev, INTERNAL_KEY, TOKEN, req, prov, sent, answered, wait, handlerRan>>
    /\ UNCHANGED notLinkVars

\* a slip: create.ok is not tested, deploy follows whatever create answered
LinkCreate_Unchecked ==
    /\ hpc = "create"
    /\ sent' = Append(sent, "create")
    /\ \E a \in Answers \cup {"badbody"} :
          /\ answered' = Append(answered, a)
          /\ CASE a = "ok" ->
                    /\ prov' = "created"
                    /\ hpc' = IF rev = "polling" /\ req.roles THEN "enable" ELSE "deploy"
                    /\ res' = res
               [] a = "badbody" ->
                    /\ prov' = "created"
                    /\ Respond(ErrorResponse(400, "Unexpected token"))
               [] a = "notok" ->
                    /\ prov' = prov
                    /\ hpc' = "deploy"
                    /\ res' = res
               [] a = "reject" ->
                    /\ prov' = prov
                    /\ Respond(ErrorResponse(400, "fetch failed"))
    /\ UNCHANGED <<rev, INTERNAL_KEY, TOKEN, req, wait, handlerRan>>
    /\ UNCHANGED notLinkVars

\* server.js:210-217: POST /users/current/accounts.  "badbody": the account
\* was created but create.json() rejects.  part_000:101-104 throws where
\* server.js:214 answers with step 'create'.
LinkCreate ==
    /\ hpc = "create"
    /\ sent' = Append(sent, "create")
    /\ \E a \in Answers \cup {"badbody"} :
          /\ answered' = Append(answered, a)
          /\ CASE a = "ok" ->
                    /\ prov' = "created"
                    /\ hpc' = IF rev = "polling" /\ req.roles THEN "enable" ELSE "deploy"
                    /\ res' = res
               [] a = "badbody" ->
                    /\ prov' = "created"
                    /\ Respond(ErrorResponse(400, "Unexpected token"))
               [] a = "notok" ->
                    /\ prov' = prov
                    /\ Respond(IF rev = "polling"
                               THEN [ErrorResponse(400, "provider error") EXCEPT !.step = "create"]
                               ELSE ErrorResponse(400, "Create account failed"))
               [] a = "reject" ->
                    /\ prov' = prov
                    /\ Respond(ErrorResponse(400, "fetch failed"))
    /\ UNCHANGED <<rev, INTERNAL_KEY, TOKEN, req, wait, handlerRan>>
    /\ UNCHANGED notLinkVars

\* server.js:219-227: enable-copy-factory-api when roles were given; an
\* answer that is not OK is only logged
LinkEnable ==
    /\ hpc = "enable"
    /\ sent' = Append(sent, "enable")
    /\ \E a \in Answers :
          /\ answered' = Append(answered, a)
          /\ IF a = "reject"
             THEN Respond(ErrorResponse(400, "fetch failed"))
             ELSE hpc' = "deploy" /\ res' = res
    /\ UNCHANGED <<rev, INTERNAL_KEY, TOKEN, req, prov, wait, handlerRan>>
    /\ UNCHANGED notLinkVars

\* server.js:229-232, 237, 242: POST .../deploy.  part_000:118-121 throws
\* where server.js:233 goes on to delete the account; part_000:135
\* answers where server.js:242 goes on to poll.
LinkDeploy ==
    /\ hpc = "deploy"
    /\ sent' = Append(sent, "deploy")
    /\ \E a \in Answers :
          /\ answered' = Append(answered, a)
          /\ CASE a = "ok" ->
                    /\ prov' = "deployed"
                    /\ hpc' = IF req.dryRun THEN "dryDelete"
                              ELSE IF rev = "polling" THEN "poll" ELSE "respondOk"
                    /\ res' = res
               [] a = "notok" ->
                    /\ prov' = prov
                    /\ IF rev = "polling"
                       THEN hpc' = "deployCleanup" /\ res' = res
                       ELSE Respond(ErrorResponse(400, "Deploy failed"))
               [] a = "reject" ->
                    /\ prov' = prov
                    /\ Respond(ErrorResponse(400, "fetch failed"))
    /\ UNCHANGED <<rev, INTERNAL_KEY, TOKEN, req, wait, handlerRan>>
    /\ UNCHANGED notLinkVars

\* a slip: the DELETE without .catch, its rejection answered by line 268
LinkDeployCleanup_NoCatch ==
    /\ hpc = "deployCleanup"
    /\ sent' = Append(sent, "delete")
    /\ \E a \in Answers :
          /\ answered' = Append(answered, a)
          /\ prov' = IF a = "ok" THEN "deleted" ELSE prov
    /\ \/ Respond([ErrorResponse(400, "provider error") EXCEPT !.step = "deploy"])
       \/ Respond(ErrorResponse(400, "fetch failed"))
    /\ UNCHANGED <<rev, INTERNAL_KEY, TOKEN, req, wait, handlerRan>>
    /\ UNCHANGED notLinkVars

\* server.js:233-234: DELETE the account, whatever comes of it, and answer
\* with step 'deploy'
LinkDeployCleanup ==
    /\ hpc = "deployCleanup"
    /\ sent' = Append(sent, "delete")
    /\ \E a \in Answers :
          /\ answered' = Append(answered, a)
          /\ prov' = IF a = "ok" THEN "deleted" ELSE prov
    /\ Respond([ErrorResponse(400, "provider error") EXCEPT !.step = "deploy"])
    /\ UNCHANGED <<rev, INTERNAL_KEY, TOKEN, req, wait, handlerRan>>
    /\ UNCHANGED notLinkVars

\* server.js:237-240: the dry run deletes the account and answers; the
\* status of the DELETE is not looked at, and .catch(() => {}) drops a
\* rejection (part_000:125-132 has no catch: a rejection is answered 400)
LinkDryRunDelete ==
    /\ hpc = "dryDelete"
    /\ sent' = Append(sent, "delete")
    /\ \E a \in Answers :
          /\ answered' = Append(answered, a)
          /\ /\ prov' = IF a = "ok" THEN "deleted" ELSE prov
             /\ IF a = "reject" /\ rev = "direct"
                THEN Respond(ErrorResponse(400, "fetch failed"))
                ELSE Respond(DryRunResponse)
    /\ UNCHANGED <<rev, INTERNAL_KEY, TOKEN, req, wait, handlerRan>>
    /\ UNCHANGED notLinkVars

\* server.js:242-245: const wait = await waitAccountConnected(id, 90000);
\* the function returns one of its objects or throws (line 267 catches)
LinkPoll ==
    /\ hpc = "poll"
    /\ sent' = Append(sent, "poll")
    /\ \/ \E w \in PollerReturns :
             /\ wait' = w
             /\ answered' = Append(answered, "ok")
             /\ IF ~w.ok
                THEN Respond(PollFailureResponse(w, AccountId))
                ELSE hpc' = "stats" /\ res' = res
       \/ /\ wait' = wait
          /\ answered' = Append(answered, "reject")
          /\ Respond(ErrorResponse(400, "fetch failed"))
    /\ UNCHANGED <<rev, INTERNAL_KEY, TOKEN, req, prov, handlerRan>>
    /\ UNCHANGED notLinkVars

\* server.js:248-264: enable-account-features, in a try/catch of its own
LinkStats ==
    /\ hpc = "stats"
    /\ sent' = Append(sent, "stats")
    /\ \E a \in Answers : answered' = Append(answered, a)
    /\ hpc' = "respondOk"
    /\ UNCHANGED <<rev, INTERNAL_KEY, TOKEN, req, res, prov, wait, handlerRan>>
    /\ UNCHANGED notLinkVars

\* server.js:266, part_000:135: the success response
LinkRespondOk ==
    /\ hpc = "respondOk"
    /\ Respond(SuccessResponse(rev, wait, AccountId))
    /\ UNCHANGED <<rev, INTERNAL_KEY, TOKEN, req, prov, sent, answered, wait, handlerRan>>
    /\ UNCHANGED notLinkVars

LinkNext ==
    \/ JsonMiddleware
    \/ CorsMiddleware
    \/ KeyMiddleware
    \/ Route
    \/ OtherHandler
    \/ LinkValidate
    \/ LinkCreate
    \/ LinkEnable
    \/ LinkDeploy
    \/ LinkDeployCleanup
    \/ LinkDryRunDelete
    \/ LinkPoll
    \/ LinkStats
    \/ LinkRespondOk

LinkSpec == LinkInit /\ [][LinkNext]_vars

\* ====================================================================
\* POST /api/create-copy-link, src/unnamed/part_000:182-232 (the same in
\* part_002:156-208): the subscriber is probed, created or updated,
\* subscribed to the strategy and resynchronized.
\* ====================================================================

\* a destructuring default: const { x = d } = body; the JSON literals true
\* and false are written "true" and "false"
Default(v, d) == IF v = Undefined THEN d ELSE v

\* how a call of the subscriberApi ends
SdkAnswers == {"ok", "throws"}

CopyRequests == [accountId : {Undefined, "acc"}, mirrorOpenTrades : {Undefined, "true", "false"}]

\* part_000:199-210: if (!subscriberExists) createSubscriber else updateSubscriber
WriteFor(exists) ==
    IF ~exists THEN "createSubscriber" ELSE "updateSubscriber"

\* part_000:183, 224: mirrorOpenTrades = true by default
Mirrors(body) == Default(body.mirrorOpenTrades, "true") = "true"

\* res.status(n).json(...) of this handler
CopyRespond(status) ==
    /\ copyRes' = [status |-> status, ok |-> status = 200]
    /\ cpc' = "responded"

\* a request has arrived
CopyInit ==
    /\ PollerParked
    /\ LinkIdle /\ ResolveParked /\ RoleParked /\ ConcParked
    /\ TOKEN \in {"present", "missing"}
    /\ copyReq \in CopyRequests
    /\ cpc = "validate"
    /\ subscriber \in BOOLEAN
    /\ subscriberExists = FALSE
    /\ probe = "none"
    /\ cfCalls = <<>>
    /\ copyRes = [status |-> 0, ok |-> FALSE]

\* part_000:184-185
CopyValidate ==
    /\ cpc = "validate"
    /\ IF copyReq.accountId = Undefined THEN CopyRespond(400)
       ELSE IF TOKEN = "missing" THEN CopyRespond(500)
       ELSE cpc' = "probe" /\ copyRes' = copyRes
    /\ UNCHANGED <<copyReq, subscriber, subscriberExists, probe, cfCalls>>
    /\ UNCHANGED notCopyVars

\* part_000:191-197: getSubscriber resolves when the provider has the
\* subscriber and delivers it; it throws when the provider has none, and
\* when the request fails for another reason.  catch (_) takes every throw
\* for "does not exist".
CopyProbe ==
    /\ cpc = "probe"
    /\ cfCalls' = Append(cfCalls, "getSubscriber")
    /\ \E a \in SdkAnswers :
          /\ a = "ok" => subscriber
          /\ subscriberExists' = (a = "ok")
          /\ probe' = IF a = "ok" THEN "found"
                      ELSE IF subscriber THEN "failed" ELSE "notFound"
    /\ cpc' = "write"
    /\ UNCHANGED <<copyReq, subscriber, copyRes>>
    /\ UNCHANGED notCopyVars

\* part_000:199-211: createSubscriber or updateSubscriber; a throw is
\* answered 400 by the catch of line 230
CopyWrite ==
    /\ cpc = "write"
    /\ cfCalls' = Append(cfCalls, WriteFor(subscriberExists))
    /\ \E a \in SdkAnswers :
          IF a = "ok"
          THEN /\ subscriber' = TRUE
               /\ cpc' = "subscriptions"
               /\ copyRes' = copyRes
          ELSE /\ subscriber' = subscriber
               /\ CopyRespond(400)
    /\ UNCHANGED <<copyReq, subscriberExists, probe>>
    /\ UNCHANGED notCopyVars

\* part_000:214-221: updateSubscriptions
CopySubscriptions ==
    /\ cpc = "subscriptions"
    /\ cfCalls' = Append(cfCalls, "updateSubscriptions")
    /\ \E a \in SdkAnswers :
          IF a = "ok"
          THEN /\ cpc' = IF Mirrors(copyReq) THEN "resync" ELSE "respondOk"
               /\ copyRes' = copyRes
          ELSE CopyRespond(400)
    /\ UNCHANGED <<copyReq, subscriber, subscriberExists, probe>>
    /\ UNCHANGED notCopyVars

\* part_000:224-226: resynchronize
CopyResync ==
    /\ cpc = "resync"
    /\ cfCalls' = Append(cfCalls, "resynchronize")
    /\ \E a \in SdkAnswers :
          IF a = "ok"
          THEN cpc' = "respondOk" /\ copyRes' = copyRes
          ELSE CopyRespond(400)
    /\ UNCHANGED <<copyReq, subscriber, subscriberExists, probe>>
    /\ UNCHANGED notCopyVars

\* part_000:228: res.json({ ok:true, ... })
CopyRespondOk ==
    /\ cpc = "respondOk"
    /\ CopyRespond(200)
    /\ UNCHANGED <<copyReq, subscriber, subscriberExists, probe, cfCalls>>
    /\ UNCHANGED notCopyVars

CopyNext ==
    \/ CopyValidate
    \/ CopyProbe
    \/ CopyWrite
    \/ CopySubscriptions
    \/ CopyResync
    \/ CopyRespondOk

CopyLinkSpec == CopyInit /\ [][CopyNext]_vars

\* ====================================================================
\* resolveStrategyId, src/src/server.js:95-106 (the same in
\* src/unnamed/part_001:97-111)
\* ====================================================================

\* the longest list of strategies
MaxStrategies == 2

\* what a caller passes, and what the fields of a strategy hold
StrategyNames == {"a", "b"}

\* a strategy as the provider lists it
Strategies == [_id : StrategyNames, name : {"a", "n"}, code : {Undefined, "b"}]

\* the sequences over a set up to a length
SeqsUpTo(S, n) == UNION {[1..k -> S] : k \in 0..n}

\* nothing read yet
NoList == [read |-> FALSE, array |-> FALSE, items |-> <<>>]

\* a slip: the code of a strategy is not compared
Matches_NoCode(s, x) == s._id = x \/ s.name = x

\* line 101: s._id === strategyMaybe || s.name === strategyMaybe || s.code === strategyMaybe
Matches(s, x) == s._id = x \/ s.name = x \/ s.code = x

\* line 100: const items = Array.isArray(list) ? list : [];
Items(l) == IF l.array THEN l.items ELSE <<>>

\* line 101: items.find(...): the place of the first strategy that
\* matches, or 0
RECURSIVE Find(_, _)
Find(items, x) ==
    IF items = <<>> THEN 0
    ELSE IF Matches(Head(items), x) THEN 1
    ELSE LET i == Find(Tail(items), x) IN IF i = 0 THEN 0 ELSE i + 1

\* the function has been called
ResolveInit ==
    /\ PollerParked
    /\ LinkParked /\ CopyParked /\ RoleParked /\ ConcParked
    /\ strategyMaybe \in StrategyNames
    /\ strategies \in SeqsUpTo(Strategies, MaxStrategies)
    /\ rpc = "direct"
    /\ direct = "none"
    /\ list = NoList
    /\ resolved = Undefined
    /\ resolveError = "none"

\* lines 96-97: the direct lookup; if (r.ok) return strategyMaybe
ResolveDirect ==
    /\ rpc = "direct"
    /\ \E a \in Answers :
          CASE a = "ok" ->
                 /\ direct' = "ok"
                 /\ resolved' = strategyMaybe
                 /\ resolveError' = resolveError
                 /\ rpc' = "returned"
            [] a = "notok" ->
                 /\ direct' = "notok"
                 /\ resolved' = resolved
                 /\ resolveError' = resolveError
                 /\ rpc' = "list"
            [] a = "reject" ->
                 /\ direct' = direct
                 /\ resolved' = resolved
                 /\ resolveError' = "fetch"
                 /\ rpc' = "threw"
    /\ UNCHANGED <<strategyMaybe, strategies, list>>
    /\ UNCHANGED notResolveVars

\* lines 99-105: the list is fetched and parsed whatever its status (an
\* error body is not an array); the first match is returned by its _id
ResolveList ==
    /\ rpc = "list"
    /\ \E a \in Answers :
          IF a = "reject"
          THEN /\ list' = list
               /\ resolved' = resolved
               /\ resolveError' = "fetch"
               /\ rpc' = "threw"
          ELSE /\ list' = [read |-> TRUE, array |-> a = "ok",
                           items |-> IF a = "ok" THEN strategies ELSE <<>>]
               /\ LET hit == Find(Items(list'), strategyMaybe)
                  IN IF hit = 0
                     THEN /\ resolveError' = "NotFound"
                          /\ resolved' = resolved
                          /\ rpc' = "threw"
                     ELSE /\ resolveError' = resolveError
                          /\ resolved' = Items(list')[hit]._id
                          /\ rpc' = "returned"
    /\ UNCHANGED <<strategyMaybe, strategies, direct>>
    /\ UNCHANGED notResolveVars

ResolveNext ==
    \/ ResolveDirect
    \/ ResolveList

ResolveSpec == ResolveInit /\ [][ResolveNext]_vars

\* ====================================================================
\* ensureSubscriberRole, src/src/server.js:108-121 (the same in
\* src/unnamed/part_001:113-127), called once per request by
\* POST /api/copy/enable-subscriber (server.js:450-460)
\* ====================================================================

\* the calls made one after the other
MaxEnsureCalls == 3

\* the roles an account may have
CopyFactoryRoles == {"SUBSCRIBER", "PROVIDER"}

\* a body without copyFactoryRoles
NoInfo == [listed |-> FALSE, copyFactoryRoles |-> {}]

\* line 110: info.copyFactoryRoles?.includes('SUBSCRIBER')
HasSubscriber(i) == i.listed /\ "SUBSCRIBER" \in i.copyFactoryRoles

\* line 114: the roles the enable request asks for
EnableBody == {"SUBSCRIBER"}

RoleInit ==
    /\ PollerParked
    /\ LinkParked /\ CopyParked /\ ResolveParked /\ ConcParked
    /\ roles \in SUBSET CopyFactoryRoles
    /\ epc = "idle"
    /\ info = NoInfo
    /\ ensured = "none"
    /\ roleWrites = 0
    /\ roleCalls = 0
    /\ prevEnsured = "none"

\* line 455: a request calls ensureSubscriberRole(accountId)
EnsureCall ==
    /\ epc \in {"idle", "done"}
    /\ roleCalls < MaxEnsureCalls
    /\ roleCalls' = roleCalls + 1
    /\ prevEnsured' = ensured
    /\ ensured' = "none"
    /\ info' = NoInfo
    /\ roleWrites' = 0
    /\ epc' = "info"
    /\ UNCHANGED roles
    /\ UNCHANGED notRoleVars

\* lines 109-110: the account is fetched and its body parsed whatever the
\* status; a body of an error has no copyFactoryRoles
EnsureInfo ==
    /\ epc = "info"
    /\ \E a \in Answers :
          IF a = "reject"
          THEN info' = info /\ ensured' = "threw" /\ epc' = "done"
          ELSE /\ info' = IF a = "ok"
                          THEN [listed |-> TRUE, copyFactoryRoles |-> roles]
                          ELSE NoInfo
               /\ IF HasSubscriber(info')
                  THEN ensured' = "true" /\ epc' = "done"
                  ELSE ensured' = ensured /\ epc' = "enable"
    /\ UNCHANGED <<roles, roleWrites, roleCalls, prevEnsured>>
    /\ UNCHANGED notRoleVars

\* lines 112-118: POST enable-copy-factory-api; the provider that answers
\* OK has given the account the roles asked for
EnsureEnable ==
    /\ epc = "enable"
    /\ roleWrites' = roleWrites + 1
    /\ \E a \in Answers :
          IF a = "ok"
          THEN roles' = roles \cup EnableBody /\ ensured' = ensured /\ epc' = "sleep"
          ELSE roles' = roles /\ ensured' = "threw" /\ epc' = "done"
    /\ UNCHANGED <<info, roleCalls, prevEnsured>>
    /\ UNCHANGED notRoleVars

\* lines 119-120: after 1500 ms, return true
EnsureReturn ==
    /\ epc = "sleep"
    /\ ensured' = "true"
    /\ epc' = "done"
    /\ UNCHANGED <<roles, info, roleWrites, roleCalls, prevEnsured>>
    /\ UNCHANGED notRoleVars

RoleNext ==
    \/ EnsureCall
    \/ EnsureInfo
    \/ EnsureEnable
    \/ EnsureReturn

RoleSpec == RoleInit /\ [][RoleNext]_vars

\* ====================================================================
\* Two invocations of waitAccountConnected (src/src/server.js:78-93) in
\* flight at once, for two accounts: two requests to POST /api/link-account
\* whose handlers both await line 242.  The handlers run on one event
\* loop: a step of one invocation runs from one await to the next, and the
\* steps of the two interleave in any order.
\* ====================================================================

\* the clock advances in steps of ConcTick up to MaxTicks steps
ConcTick == 1250
MaxTicks == 4

\* the budgets the two invocations are called with
ConcBudgets == {0, PollIntervalMs, PollIntervalMs + ConcTick}

\* the bodies the provider sends for the two accounts
ConcBodies == {b \in Accounts : b.errorCode = Undefined}

\* the exception of a fetch that rejects
Threw == [NoOutcome EXCEPT !.error = "fetch failed"]

\* a slip: start declared outside the function, one for all invocations
StartOf_Shared(p) == 1

\* line 79: const start is a local of the invocation, so each
\* invocation reads and writes its own
StartOf(p) == p

\* what one snapshot decides for an invocation that runs alone
SoloRead(b) ==
    IF SuccessCondition(b) THEN ConnectedOutcome(b.state, b.connectionStatus)
    ELSE IF FailureCondition(b)
    THEN FailedOutcome(b.state, b.connectionStatus, b.errorCode, b)
    ELSE NoOutcome

ConcInit ==
    /\ PollerParked
    /\ LinkParked /\ CopyParked /\ ResolveParked /\ RoleParked
    /\ clock = 0
    /\ ppc = [p \in Procs |-> "idle"]
    /\ pstart = [p \in Procs |-> 0]
    /\ pmax \in [Procs -> ConcBudgets]
    /\ pdue = [p \in Procs |-> 0]
    /\ pout = [p \in Procs |-> NoOutcome]
    /\ calledAt = [p \in Procs |-> 0]
    /\ solo = [p \in Procs |-> NoOutcome]
    /\ actor = 0

\* time passes while both invocations wait
ConcTime ==
    /\ clock < MaxTicks * ConcTick
    /\ clock' = clock + ConcTick
    /\ actor' = 0
    /\ UNCHANGED <<ppc, pstart, pmax, pdue, pout, calledAt, solo>>
    /\ UNCHANGED notConcVars

\* lines 78-79: invocation p is called; const start = Date.now()
ConcCall(p) ==
    /\ ppc[p] = "idle"
    /\ ppc' = [ppc EXCEPT ![p] = "test"]
    /\ pstart' = [pstart EXCEPT ![StartOf(p)] = clock]
    /\ calledAt' = [calledAt EXCEPT ![p] = clock]
    /\ actor' = p
    /\ UNCHANGED <<clock, pmax, pdue, pout, solo>>
    /\ UNCHANGED notConcVars

\* lines 80-81: the loop test of p holds and its request is sent
ConcLoopEnter(p) ==
    /\ ppc[p] = "test"
    /\ WithinBudget(clock, pstart[StartOf(p)], pmax[p])
    /\ ppc' = [ppc EXCEPT ![p] = "fetching"]
    /\ solo' = [solo EXCEPT ![p] =
                  IF solo[p] = NoOutcome /\ ~(clock - calledAt[p] < pmax[p])
                  THEN TimedOutOutcome ELSE solo[p]]
    /\ actor' = p
    /\ UNCHANGED <<clock, pstart, pmax, pdue, pout, calledAt>>
    /\ UNCHANGED notConcVars

\* lines 80, 92: the loop test of p fails
ConcLoopExit(p) ==
    /\ ppc[p] = "test"
    /\ ~WithinBudget(clock, pstart[StartOf(p)], pmax[p])
    /\ ppc' = [ppc EXCEPT ![p] = "returned"]
    /\ pout' = [pout EXCEPT ![p] = TimedOutOutcome]
    /\ solo' = [solo EXCEPT ![p] =
                  IF solo[p] = NoOutcome /\ ~(clock - calledAt[p] < pmax[p])
                  THEN TimedOutOutcome ELSE solo[p]]
    /\ actor' = p
    /\ UNCHANGED <<clock, pstart, pmax, pdue, calledAt>>
    /\ UNCHANGED notConcVars

\* lines 81-82: the request of p rejects
ConcFetchRejects(p) ==
    /\ ppc[p] = "fetching"
    /\ ppc' = [ppc EXCEPT ![p] = "threw"]
    /\ solo' = [solo EXCEPT ![p] = IF solo[p] = NoOutcome THEN Threw ELSE solo[p]]
    /\ actor' = p
    /\ UNCHANGED <<clock, pstart, pmax, pdue, pout, calledAt>>
    /\ UNCHANGED notConcVars

\* lines 82-90: the body of p is read and tested; p returns or sets its
\* timer
ConcJsonParsed(p) ==
    /\ ppc[p] = "fetching"
    /\ \E b \in ConcBodies :
          /\ IF IsConnected(b.state, b.connectionStatus)
             THEN /\ pout' = [pout EXCEPT ![p] = ConnectedOutcome(b.state, b.connectionStatus)]
                  /\ ppc' = [ppc EXCEPT ![p] = "returned"]
                  /\ pdue' = pdue
             ELSE IF IsFailed(b.state, b.errorCode)
             THEN /\ pout' = [pout EXCEPT ![p] =
                                FailedOutcome(b.state, b.connectionStatus, b.errorCode, b)]
                  /\ ppc' = [ppc EXCEPT ![p] = "returned"]
                  /\ pdue' = pdue
             ELSE /\ pout' = pout
                  /\ ppc' = [ppc EXCEPT ![p] = "sleeping"]
                  /\ pdue' = [pdue EXCEPT ![p] = clock + PollIntervalMs]
          /\ solo' = [solo EXCEPT ![p] = IF solo[p] = NoOutcome THEN SoloRead(b) ELSE solo[p]]
    /\ actor' = p
    /\ UNCHANGED <<clock, pstart, pmax, calledAt>>
    /\ UNCHANGED notConcVars

\* line 90: the timer of p fires, at its time or later
ConcWake(p) ==
    /\ ppc[p] = "sleeping"
    /\ clock >= pdue[p]
    /\ ppc' = [ppc EXCEPT ![p] = "test"]
    /\ actor' = p
    /\ UNCHANGED <<clock, pstart, pmax, pdue, pout, calledAt, solo>>
    /\ UNCHANGED notConcVars

ConcNext ==
    \/ ConcTime
    \/ \E p \in Procs : ConcCall(p)
    \/ \E p \in Procs : ConcLoopEnter(p)
    \/ \E p \in Procs : ConcLoopExit(p)
    \/ \E p \in Procs : ConcFetchRejects(p)
    \/ \E p \in Procs : ConcJsonParsed(p)
    \/ \E p \in Procs : ConcWake(p)

ConcSpec == ConcInit /\ [][ConcNext]_vars

\* the place of a request in the list of those sent, or 0
RECURSIVE IndexOf(_, _)
IndexOf(seq, x) ==
    IF seq = <<>> THEN 0
    ELSE IF Head(seq) = x THEN 1
    ELSE LET i == IndexOf(Tail(seq), x) IN IF i = 0 THEN 0 ELSE i + 1

\* ------------------------------------------------------------------ C1
\* C1: the poller returns ok:true only when the one body it has just read
\* has state DEPLOYED and connectionStatus CONNECTED, and the state and
\* connectionStatus it returns are the ones of that body.
C1_SuccessFromOneSnapshot ==
    (pc = "returned" /\ outcome.ok) =>
        /\ j.state = "DEPLOYED"
        /\ j.connectionStatus = "CONNECTED"
        /\ outcome.state = j.state
        /\ outcome.connectionStatus = j.connectionStatus
        /\ firstConnectedAt = polls

\* a success returned at the second or a later poll, after bodies that were
\* not a success
C1_Witness ==
    pc = "returned" /\ outcome.ok /\ polls >= 2

\* ------------------------------------------------------------------ C2
\* C2 as stated: if poll k is the first whose body has state DEPLOY_FAILED
\* or a non-null errorCode, the poller returns Failed after exactly k
\* polls, with no fetch and no sleep after it.
C2_FailedAtFirstTerminal ==
    firstTerminalAt > 0 =>
        /\ pc = "returned"
        /\ Tag(outcome) = "Failed"
        /\ polls = firstTerminalAt
        /\ gets = firstTerminalAt
        /\ sleeps = firstTerminalAt - 1

\* C2 amended: if poll k is the first whose body is not a success and has
\* state DEPLOY_FAILED or a truthy errorCode, the poller returns Failed
\* after exactly k polls (k fetches, k - 1 sleeps), that body being the raw
\* of the outcome, and no fetch and no sleep follows.
C2_FailedAtFirstFailure ==
    firstFailedAt > 0 =>
        /\ pc = "returned"
        /\ Tag(outcome) = "Failed"
        /\ outcome.raw = j
        /\ polls = firstFailedAt
        /\ gets = firstFailedAt
        /\ sleeps = firstFailedAt - 1

\* a failure seen on the third poll
C2_Witness ==
    firstFailedAt = 3 /\ pc = "returned" /\ Tag(outcome) = "Failed"

\* ------------------------------------------------------------------ C3
\* C3: a success body on the first poll makes the poller return Connected
\* after exactly one poll and without a sleep.
C3_ImmediateSuccess ==
    (polls = 1 /\ SuccessCondition(j)) =>
        /\ pc = "returned"
        /\ Tag(outcome) = "Connected"
        /\ gets = 1
        /\ sleeps = 0
        /\ (exact => now = start)

C3_Witness ==
    polls = 1 /\ SuccessCondition(j) /\ pc = "returned"

\* ------------------------------------------------------------------ C4
\* C4: when every fetch settles, a call that has begun eventually ends, and
\* it ends by returning unless a fetch failed to deliver a body; a call that
\* returns without having seen the success or the failure condition returns
\* the timeout outcome, its budget spent.
C4_EventuallyReturns ==
    /\ [](pc \in Running => <>(pc \in Finished))
    /\ [](pc = "threw" => failedFetches > 0)
    /\ []((pc = "returned" /\ firstConnectedAt = 0 /\ firstFailedAt = 0) =>
             (Tag(outcome) = "TimedOut" /\ now - start >= maxWaitMs))

\* a timeout after several polls
C4_Witness ==
    pc = "returned" /\ Tag(outcome) = "TimedOut" /\ polls >= 2

\* ------------------------------------------------------------------ C5
\* C5: with fetches of no latency and exact timers, a call that never sees a
\* terminal condition makes ceil(M / P) polls, the k-th of them at
\* (k - 1) * P, and returns the timeout at t with M <= t < M + P.
C5_PollCountAndTime ==
    /\ (pc = "returned" /\ Tag(outcome) = "TimedOut" /\ exact) =>
          /\ polls = CeilDiv(maxWaitMs, PollIntervalMs)
          /\ maxWaitMs <= now - start
          /\ now - start < maxWaitMs + PollIntervalMs
    /\ (pc = "fetching" /\ exact) =>
          now - start = (polls - 1) * PollIntervalMs

\* a budget that is not a multiple of the interval, timed out exactly
C5_Witness ==
    /\ pc = "returned" /\ Tag(outcome) = "TimedOut" /\ exact
    /\ maxWaitMs = 2 * PollIntervalMs + 1 /\ polls = 3

\* ------------------------------------------------------------------ C6
\* C6: a fetch that fails does not abort the loop: the poller goes on to
\* the sleep and the next poll.
C6_FetchFailureTolerated ==
    [][failedFetches' > failedFetches => pc' = "sleeping"]_vars

\* ------------------------------------------------------------------ C7
\* C7: every call ends by returning one of the three outcomes; no exception
\* of a fetch leaves the function.
C7_OnlyThreeOutcomes ==
    pc \in Finished =>
        /\ thrown = "none"
        /\ Tag(outcome) \in {"Connected", "Failed", "TimedOut"}

\* ------------------------------------------------------------------ C8
\* C8: once the client has gone away, no poll begins later than one poll
\* interval after that moment.
C8_NoPollAfterCancel ==
    [][(polls' = polls + 1 /\ sinceCancel >= 0) =>
           sinceCancel <= PollIntervalMs]_vars

\* ------------------------------------------------------------------ C9
\* C9: every iteration sends exactly one GET, the poller sends no other
\* request, and no step changes the account at the provider.
C9_ReadOnly ==
    /\ [](gets = polls /\ writes = 0)
    /\ [][acct' = acct]_vars

C9_Witness ==
    pc = "returned" /\ polls >= 2 /\ gets >= 2 /\ acct = "present"

\* ------------------------------------------------------------------ C10
\* C10: two calls in sequence, each with a positive budget, against a
\* provider that answers every fetch with the success condition both return
\* ok:true with the same state and connectionStatus.
C10_Idempotent ==
    (calls >= 2 /\ pc = "returned" /\ steady /\ prevPositive /\ maxWaitMs > 0) =>
        /\ outcome.ok
        /\ prevOutcome.ok
        /\ outcome = prevOutcome

C10_Witness ==
    calls = 2 /\ pc = "returned" /\ steady /\ prevPositive /\ maxWaitMs > 0

\* ------------------------------------------------------------------ C13
\* C13: every object the poller returns with ok:false after it has read a
\* body carries the state and connectionStatus of the body read last, and a
\* Failed one carries the errorCode and the body as raw.
C13_NonSuccessCarriesLastPair ==
    (pc = "returned" /\ ~outcome.ok /\ polls >= 1) =>
        /\ outcome.state = j.state
        /\ outcome.connectionStatus = j.connectionStatus
        /\ (Tag(outcome) = "Failed" =>
               outcome.errorCode = j.errorCode /\ outcome.raw = j)

\* ------------------------------------------------------------------ C20
\* C20: a poll begins only while Date.now() - start < maxWaitMs, and a call
\* with maxWaitMs <= 0 returns the timeout without a poll.
C20_PollOnlyWithinBudget ==
    /\ [][polls' = polls + 1 => now - start < maxWaitMs]_vars
    /\ []((pc \in Running \cup Finished /\ maxWaitMs <= 0) =>
             (polls = 0 /\ gets = 0 /\ pc \in {"test", "returned"}))
    /\ []((pc = "returned" /\ maxWaitMs <= 0) => outcome = TimedOutOutcome)

\* a call with a budget of 0 or less has returned, and so has one that
\* spent a positive budget
C20_Witness ==
    pc = "returned" /\ maxWaitMs <= 0 /\ polls = 0 /\ outcome = TimedOutOutcome

\* ------------------------------------------------------------------ C11
\* C11: when the poller has returned, POST /api/link-account answers 200
\* with ok:true and the outcome under connection for Connected, and 400
\* with ok:false, step 'poll' and the fields of the outcome for Failed and
\* TimedOut.
C11_PollOutcomeMapped ==
    (hpc = "responded" /\ wait # NoOutcome) =>
        IF Tag(wait) = "Connected"
        THEN res.status = 200 /\ res.ok /\ res.connection = wait
                /\ res.accountId = AccountId
        ELSE /\ res.status = 400 /\ ~res.ok /\ res.step = "poll"
             /\ res.state = wait.state
             /\ res.connectionStatus = wait.connectionStatus
             /\ res.errorCode = wait.errorCode
             /\ res.raw = wait.raw
             /\ res.error = wait.error

\* a Failed outcome has been answered
C11_Witness ==
    hpc = "responded" /\ Tag(wait) = "Failed" /\ res.status = 400

\* ------------------------------------------------------------------ C14
\* C14: in every revision, a request that is not a dry run is answered
\* ok:true with an accountId only after create, deploy and a poll that
\* observed the account connected, in this order.
C14_SuccessOnlyAfterConnected ==
    (hpc = "responded" /\ res.ok /\ res.accountId # Undefined) =>
        /\ wait.ok
        /\ 0 < IndexOf(sent, "create")
        /\ IndexOf(sent, "create") < IndexOf(sent, "deploy")
        /\ IndexOf(sent, "deploy") < IndexOf(sent, "poll")

\* ------------------------------------------------------------------ C15
\* C15: with INTERNAL_API_KEY configured, a POST whose
\* x-internal-key is absent or different is answered 401, no handler runs
\* for it and nothing is sent to the provider.
C15_WrongKeyIs401 ==
    (rev = "polling" /\ INTERNAL_KEY # "" /\ req.method = "POST"
       /\ req.key # INTERNAL_KEY) =>
        /\ ~handlerRan
        /\ sent = <<>>
        /\ (hpc = "responded" => res.status = 401)

\* ------------------------------------------------------------------ C16
\* C16: when a dry run is answered { ok: true, dryRun: true } the account
\* has been deleted at the provider and no poll was made.
C16_DryRunDeleted ==
    (hpc = "responded" /\ res.ok /\ res.dryRun) =>
        /\ prov = "deleted"
        /\ IndexOf(sent, "poll") = 0

\* ------------------------------------------------------------------ C17
\* C17: a request to POST /api/create-copy-link that is answered ok:true
\* has called exactly one of createSubscriber and updateSubscriber, then
\* updateSubscriptions, and resynchronize last and only when
\* mirrorOpenTrades is true; createSubscriber is called only when the
\* provider has no subscriber for the account and updateSubscriber only
\* when it has one.
C17_CreateOrUpdate ==
    /\ [](copyRes.ok =>
            LET writes2 == SelectSeq(cfCalls, LAMBDA c :
                               c \in {"createSubscriber", "updateSubscriber"})
            IN /\ Len(writes2) = 1
               /\ IndexOf(cfCalls, writes2[1]) + 1 = IndexOf(cfCalls, "updateSubscriptions")
               /\ (IndexOf(cfCalls, "resynchronize") # 0) = (copyReq.mirrorOpenTrades # "false")
               /\ IndexOf(cfCalls, "resynchronize") \in {0, Len(cfCalls)})
    /\ [][/\ cfCalls' = Append(cfCalls, "createSubscriber") => ~subscriber
          /\ cfCalls' = Append(cfCalls, "updateSubscriber") => subscriber]_vars

\* ------------------------------------------------------------------ C18
\* C18: resolveStrategyId(x) returns x when the direct lookup is answered
\* OK; otherwise it returns the _id of the first strategy of the list read
\* whose _id, name or code is x; it throws 'Strategy not found' exactly
\* when the direct lookup was answered not OK and no strategy of the list
\* read matches, a list that is not an array counting as empty.
C18_Resolves ==
    LET x == strategyMaybe
        listed == IF list.array THEN strategies ELSE <<>>
        eq(i) == listed[i]._id = x \/ listed[i].name = x \/ listed[i].code = x
        firsts == {i \in 1..Len(listed) : eq(i) /\ \A k \in 1..(i - 1) : ~eq(k)}
    IN /\ (rpc \in {"returned", "threw"} /\ direct = "ok") =>
              (rpc = "returned" /\ resolved = x)
       /\ (rpc \in {"returned", "threw"} /\ direct = "notok" /\ list.read) =>
              IF firsts = {}
              THEN rpc = "threw" /\ resolveError = "NotFound"
              ELSE rpc = "returned" /\ \A i \in firsts : resolved = listed[i]._id
       /\ resolveError = "NotFound" =>
              (rpc = "threw" /\ direct = "notok" /\ list.read /\ firsts = {})

\* the second strategy of the list was the first to match, by its code
C18_Witness ==
    /\ rpc = "returned" /\ direct = "notok" /\ Len(strategies) = 2
    /\ strategies[2].code = strategyMaybe
    /\ strategies[2]._id # strategyMaybe /\ strategies[2].name # strategyMaybe
    /\ strategies[1]._id # strategyMaybe /\ strategies[1].name # strategyMaybe
    /\ strategies[1].code # strategyMaybe
    /\ resolved = strategies[2]._id

\* ------------------------------------------------------------------ C19
\* C19: ensureSubscriberRole returns true only with SUBSCRIBER enabled on
\* the account; it sends the enable request only when the info it fetched
\* does not list SUBSCRIBER; and a call that follows a call that returned
\* true sends no enable request.
C19_EnsureIdempotent ==
    /\ ensured = "true" => "SUBSCRIBER" \in roles
    /\ roleWrites >= 1 => ~(info.listed /\ "SUBSCRIBER" \in info.copyFactoryRoles)
    /\ roleWrites <= 1
    /\ (roleCalls >= 2 /\ prevEnsured = "true") => roleWrites = 0

\* ------------------------------------------------------------------ C12
\* C12: two invocations of the poller in flight at once are independent
\* under every interleaving: a step of one leaves the start, the budget,
\* the timer, the position and the outcome of the other as they were, and
\* each invocation ends as it would end alone, with its own start and
\* deadline, against the same answers of the provider.
C12_Independent ==
    /\ [](\A p \in Procs :
            /\ ppc[p] = "returned" => pout[p] = solo[p]
            /\ ppc[p] = "threw" => solo[p] = Threw
            /\ solo[p] # NoOutcome => ppc[p] \in {"returned", "threw"}
            /\ ppc[p] # "idle" => pstart[p] = calledAt[p])
    /\ [][\A p \in Procs :
            actor' # p =>
                /\ ppc'[p] = ppc[p]
                /\ pstart'[p] = pstart[p]
                /\ pmax'[p] = pmax[p]
                /\ pdue'[p] = pdue[p]
                /\ pout'[p] = pout[p]]_vars

\* the second invocation was called while the first was waiting, and the
\* two have returned different outcomes
C12_Witness ==
    /\ ppc[1] = "returned" /\ ppc[2] = "returned"
    /\ calledAt[1] < calledAt[2]
    /\ calledAt[2] < calledAt[1] + pmax[1]
    /\ Tag(pout[1]) = "TimedOut"
    /\ Tag(pout[2]) = "Connected"

\* ------------------------------------------------------------------ C21
\* C21: within one snapshot the success test comes before the failure
\* test: a body with state DEPLOYED and connectionStatus CONNECTED makes
\* the poller return Connected whatever its errorCode, and Failed is
\* returned only for a body that is not a success.
C21_SuccessTestedFirst ==
    /\ SuccessCondition(j) => (pc = "returned" /\ Tag(outcome) = "Connected")
    /\ (pc = "returned" /\ Tag(outcome) = "Failed") => ~SuccessCondition(j)

\* a connected snapshot that carries an errorCode was answered Connected
C21_Witness ==
    /\ pc = "returned" /\ Tag(outcome) = "Connected"
    /\ j.state = "DEPLOYED" /\ j.connectionStatus = "CONNECTED"
    /\ j.errorCode = "E_AUTH"

\* ------------------------------------------------------------------ C22
\* C22: in the polling handler the requests to the provider go create,
\* then enable-copy-factory-api when roles were given, then deploy, then
\* the poll: deploy is sent only after create answered OK, the poll
\* begins only after deploy answered OK in a request that is not a dry
\* run, and a create answered not OK ends the request with status 400 and
\* step 'create', nothing else having been sent.
C22_CallsOrdered ==
    (rev = "polling" /\ req.path = "/api/link-account") =>
        /\ \A i \in 1..Len(sent) :
              /\ sent[i] = "create" => i = 1
              /\ sent[i] = "enable" =>
                    (i = 2 /\ req.roles /\ sent[1] = "create" /\ answered[1] = "ok")
              /\ sent[i] = "deploy" =>
                    /\ sent[1] = "create" /\ answered[1] = "ok"
                    /\ i = IF req.roles THEN 3 ELSE 2
                    /\ req.roles => sent[2] = "enable"
              /\ sent[i] = "poll" =>
                    (sent[i - 1] = "deploy" /\ answered[i - 1] = "ok" /\ ~req.dryRun)
        /\ (sent # <<>> /\ answered[1] # "ok") =>
              (sent = <<"create">> /\ hpc = "responded" /\ res.status = 400 /\ ~res.ok)
        /\ (sent # <<>> /\ answered[1] = "notok") => res.step = "create"

\* a create answered not OK has ended the request
C22_Witness ==
    /\ rev = "polling" /\ hpc = "responded"
    /\ sent = <<"create">> /\ answered = <<"notok">>
    /\ res.status = 400 /\ res.step = "create"

\* ------------------------------------------------------------------ C23
\* C23: in the polling handler, when deploy is answered not OK a DELETE
\* of the account is sent before the response, the response is 400 with
\* step 'deploy' whether or not the DELETE succeeded, and no poll is made.
C23_DeployFailureCleansUp ==
    (rev = "polling" /\ req.path = "/api/link-account") =>
        \A i \in 1..Len(sent) :
            (sent[i] = "deploy" /\ answered[i] = "notok") =>
                /\ IndexOf(sent, "poll") = 0
                /\ hpc \in {"deployCleanup", "responded"}
                /\ hpc = "deployCleanup" => Len(sent) = i
                /\ hpc = "responded" =>
                      /\ Len(sent) = i + 1
                      /\ sent[i + 1] = "delete"
                      /\ res.status = 400 /\ ~res.ok /\ res.step = "deploy"

\* a failed deploy whose DELETE failed too was answered with step 'deploy'
C23_Witness ==
    /\ rev = "polling" /\ hpc = "responded" /\ Len(sent) >= 2
    /\ sent[Len(sent) - 1] = "deploy" /\ answered[Len(sent) - 1] = "notok"
    /\ sent[Len(sent)] = "delete" /\ answered[Len(sent)] = "reject"
    /\ res.step = "deploy" /\ prov = "created"

\* ------------------------------------------------------------------ C24
\* C24: no request to the polling handler ends with an account that was
\* created and not deleted at the provider while the response does not
\* carry its accountId.
C24_NoOrphanWithoutId ==
    (rev = "polling" /\ hpc = "responded" /\ prov \in {"created", "deployed"}) =>
        res.accountId = AccountId

\* ------------------------------------------------------------------ C25
\* C25: the handler validates before it acts: a request without
\* brokerServer, login or password is answered 400, a request with them
\* that arrives when no METAAPI_TOKEN is configured is answered 500, and
\* in both cases nothing is sent to the provider.
C25_ValidatesFirst ==
    (handlerRan /\ req.path = "/api/link-account") =>
        /\ req.fields = "missing" =>
              /\ sent = <<>>
              /\ hpc = "responded" => (res.status = 400 /\ ~res.ok)
        /\ (req.fields = "complete" /\ TOKEN = "missing") =>
              /\ sent = <<>>
              /\ hpc = "responded" => (res.status = 500 /\ ~res.ok)
        /\ sent # <<>> => (req.fields = "complete" /\ TOKEN = "present")

\* a complete request was answered 500 for the missing token
C25_Witness ==
    /\ handlerRan /\ req.path = "/api/link-account" /\ hpc = "responded"
    /\ req.fields = "complete" /\ TOKEN = "missing" /\ res.status = 500

====
